---- MODULE Spec2Model ----
(***************************************************************************)
(* Model of app.py: the site-cluster dashboard.  The table loaded from the *)
(* CSV files is the input; every function of app.py is an operator that    *)
(* computes what the Python code computes, and every function is applied   *)
(* by one action that records its return value, the markers it added to    *)
(* the map and the exception it ended with.                                *)
(***************************************************************************)
EXTENDS Integers, Sequences, FiniteSets, TLC

\* ------------------------------------------------------------------ data

\* app.py:12-29
COLOR_PALETTE ==
  << "black", "red", "blue", "green", "purple", "orange", "darkred",
     "lightred", "beige", "darkblue", "darkgreen", "cadetblue",
     "darkpurple", "lightblue", "pink", "gray" >>

\* app.py:34
file_names == << "cluster_coords.csv" >>

\* app.py:107-109, the keys of img_mapping and their images
img_mapping_keys == { "normalized time-series kmeans" }
img_mapping(cluster_type) == "cluster_plots.png"

\* Outcomes of a call: no exception, or the exception that ended it.
NoError == "none"
IndexError == "IndexError"
ValueError == "ValueError"
KeyError == "KeyError"

\* A missing cell of a float column (pandas NaN) and the value selectbox
\* returns when it has no options (Python None).
NaN == "NaN"
None == "None"

is_nan(x) == x = NaN

\* ---------------------------------------------------------------- inputs

\* The longest table a listed file holds.
MaxRows == 2
\* The ranks of the one-row tables of SpecPalette are -RankSpan..RankSpan.
RankSpan == 18

ClusterTypes == { "normalized time-series kmeans",
                  "non-normalized time-series kmeans" }
ClusterIds == { "1", "2" }
Coords == { NaN, "38.7" }

\* Rows for the ordering and the legend: ranks inside the palette, with gaps
\* and ties, sites with and without a longitude.
SortRows == [ cluster_type : ClusterTypes, cluster_id : ClusterIds,
              cluster_rank : { 0, 1, 2 }, latitude : { "38.7" },
              longitude : Coords ]

\* Rows for the map: a rank inside and one beyond the palette, sites without a
\* longitude, and sites with a longitude but no latitude.
MapRows == { r \in [ cluster_type : ClusterTypes, cluster_id : ClusterIds,
                     cluster_rank : { 0, 16 }, latitude : Coords,
                     longitude : Coords ] :
               is_nan(r.longitude) => is_nan(r.latitude) }

\* Rows for the palette lookup: every rank around the palette's two ends.
PaletteRows == [ cluster_type : ClusterTypes, cluster_id : { "1" },
                 cluster_rank : (-RankSpan)..RankSpan, latitude : { "38.7" },
                 longitude : { "38.7" } ]

Tables(rows, lengths) == UNION { [1..n -> rows] : n \in lengths }

Files == { file_names[i] : i \in 1..Len(file_names) }

\* ------------------------------------------------------------ load_data

\* pd.concat(dfs): the rows of the frames, one frame after the other.
RECURSIVE concat_rows(_)
concat_rows(dfs) ==
  IF dfs = <<>> THEN <<>> ELSE Head(dfs) \o concat_rows(Tail(dfs))

\* ignore_index=True: the rows are labelled 0..n-1 in their new order.
ignore_index(rows) ==
  [ i \in 1..Len(rows) |->
      [ index |-> i - 1,
        cluster_type |-> rows[i].cluster_type,
        cluster_id |-> rows[i].cluster_id,
        cluster_rank |-> rows[i].cluster_rank,
        latitude |-> rows[i].latitude,
        longitude |-> rows[i].longitude ] ]

\* The loop of load_data: dfs collects the frames of the files that exist.
RECURSIVE existing_frames(_, _)
existing_frames(disk, names) ==
  IF names = <<>> THEN <<>>
  ELSE (IF disk[Head(names)].exists THEN << disk[Head(names)].rows >> ELSE <<>>)
       \o existing_frames(disk, Tail(names))

\* load_data: pd.concat raises ValueError ("No objects to concatenate") on
\* an empty list of frames.
load_data(disk) ==
  LET dfs == existing_frames(disk, file_names)
  IN IF dfs = <<>>
       THEN [ err |-> ValueError, df |-> <<>> ]
       ELSE [ err |-> NoError, df |-> ignore_index(concat_rows(dfs)) ]

\* ------------------------------------------------ _get_sorted_cluster_ids

\* df[["cluster_type", "cluster_id", "cluster_rank"]]
project3(df) ==
  [ i \in 1..Len(df) |->
      [ index |-> df[i].index,
        cluster_type |-> df[i].cluster_type,
        cluster_id |-> df[i].cluster_id,
        cluster_rank |-> df[i].cluster_rank ] ]

same_triple(a, b) ==
  /\ a.cluster_type = b.cluster_type
  /\ a.cluster_id = b.cluster_id
  /\ a.cluster_rank = b.cluster_rank

\* The rows of df at the positions in keep, in their order, from position i on.
RECURSIVE rows_at(_, _, _)
rows_at(df, keep, i) ==
  IF i > Len(df) THEN <<>>
  ELSE (IF i \in keep THEN << df[i] >> ELSE <<>>) \o rows_at(df, keep, i + 1)

\* drop_duplicates(): keeps the first row of every (type, id, rank) triple.
drop_duplicates(df) ==
  rows_at(df, { i \in 1..Len(df) :
                 \A j \in 1..(i - 1) : ~ same_triple(df[j], df[i]) }, 1)

\* Order of the cluster_type strings ("non-..." sorts before "normalized").
type_ord(t) == IF t = "non-normalized time-series kmeans" THEN 0 ELSE 1

\* a sorts strictly before b by ["cluster_type", "cluster_rank"].
key_less(a, b) ==
  \/ type_ord(a.cluster_type) < type_ord(b.cluster_type)
  \/ /\ type_ord(a.cluster_type) = type_ord(b.cluster_type)
     /\ a.cluster_rank < b.cluster_rank

\* Variant: the row is put in front of the rows of equal key (an unstable sort).
RECURSIVE insert_sorted_before_equal(_, _)
insert_sorted_before_equal(r, s) ==
  IF s = <<>> THEN << r >>
  ELSE IF ~ key_less(Head(s), r) THEN << r >> \o s
  ELSE << Head(s) >> \o insert_sorted_before_equal(r, Tail(s))

\* One row put into an already sorted frame, behind the rows of equal key.
RECURSIVE insert_sorted(_, _)
insert_sorted(r, s) ==
  IF s = <<>> THEN << r >>
  ELSE IF key_less(r, Head(s)) THEN << r >> \o s
  ELSE << Head(s) >> \o insert_sorted(r, Tail(s))

\* sort_values(by=[...]) with two keys: pandas' lexsort, a stable sort.
RECURSIVE sort_values(_)
sort_values(df) ==
  IF df = <<>> THEN <<>>
  ELSE insert_sorted(df[Len(df)], sort_values(SubSeq(df, 1, Len(df) - 1)))

\* Series.unique(): the values in order of first appearance.
unique(vals) ==
  rows_at(vals, { i \in 1..Len(vals) :
                   \A j \in 1..(i - 1) : vals[j] # vals[i] }, 1)

column_cluster_id(df) == [ i \in 1..Len(df) |-> df[i].cluster_id ]
column_cluster_type(df) == [ i \in 1..Len(df) |-> df[i].cluster_type ]

filter_cluster_type(df, cluster_type) ==
  SelectSeq(df, LAMBDA r : r.cluster_type = cluster_type)

\* Variant: the sort_values step is left out.
_get_sorted_cluster_ids_no_sort(df, cluster_type) ==
  LET _df == drop_duplicates(project3(df))
  IN unique(column_cluster_id(filter_cluster_type(_df, cluster_type)))

_get_sorted_cluster_ids(df, cluster_type) ==
  LET _df == sort_values(drop_duplicates(project3(df)))
  IN unique(column_cluster_id(filter_cluster_type(_df, cluster_type)))

\* ------------------------------------------------------- palette lookups

\* Variant: a list that rejects negative indexes.
palette_at_no_wrap(i) ==
  IF 0 <= i /\ i < Len(COLOR_PALETTE) THEN COLOR_PALETTE[i + 1]
  ELSE IndexError

\* COLOR_PALETTE[i] as Python evaluates it on a list of 16 entries.
palette_at(i) ==
  IF 0 <= i /\ i < Len(COLOR_PALETTE) THEN COLOR_PALETTE[i + 1]
  ELSE IF -Len(COLOR_PALETTE) <= i /\ i < 0
         THEN COLOR_PALETTE[Len(COLOR_PALETTE) + i + 1]
  ELSE IndexError

\* --------------------------------------------------------- display_legend

\* Variant: the colours are counted from 1 (enumerate(options, 1)).
RECURSIVE legend_loop_from_one(_, _)
legend_loop_from_one(options, i) ==
  IF i >= Len(options) THEN [ entries |-> <<>>, err |-> NoError ]
  ELSE IF palette_at(i + 1) = IndexError
    THEN [ entries |-> <<>>, err |-> IndexError ]
  ELSE LET rest == legend_loop_from_one(options, i + 1)
       IN [ entries |-> << [ color |-> palette_at(i + 1),
                             cluster_id |-> options[i + 1] ] >> \o rest.entries,
            err |-> rest.err ]

\* The enumerate loop: entries written to the sidebar until a lookup raises.
RECURSIVE legend_loop(_, _)
legend_loop(options, i) ==
  IF i >= Len(options) THEN [ entries |-> <<>>, err |-> NoError ]
  ELSE IF palette_at(i) = IndexError THEN [ entries |-> <<>>, err |-> IndexError ]
  ELSE LET rest == legend_loop(options, i + 1)
       IN [ entries |-> << [ color |-> palette_at(i),
                             cluster_id |-> options[i + 1] ] >> \o rest.entries,
            err |-> rest.err ]

display_legend(df, cluster_type) ==
  legend_loop(_get_sorted_cluster_ids(df, cluster_type), 0)

\* ------------------------------------------------------------ display_map

\* Variant: the rows without a longitude are kept.
drop_no_geolocation_keeps_all(df) == df

\* df.loc[~df["longitude"].isna()]
drop_no_geolocation(df) == SelectSeq(df, LAMBDA r : ~ is_nan(r.longitude))

\* Variant: the cluster_type filter is left out.
map_frame_any_type(df, cluster_type, cluster_id) ==
  LET located == SelectSeq(df, LAMBDA r : ~ is_nan(r.longitude))
  IN IF cluster_id # {}
       THEN SelectSeq(located, LAMBDA r : r.cluster_id \in cluster_id)
       ELSE located

\* Variant: the cluster_id filter is applied to an empty selection too.
map_frame_always_isin(df, cluster_type, cluster_id) ==
  SelectSeq(SelectSeq(SelectSeq(df, LAMBDA r : ~ is_nan(r.longitude)),
                      LAMBDA r : r.cluster_type = cluster_type),
            LAMBDA r : r.cluster_id \in cluster_id)

\* Lines 117-123: the frame display_map iterates over.
map_frame(df, cluster_type, cluster_id) ==
  LET typed == filter_cluster_type(drop_no_geolocation(df), cluster_type)
  IN IF cluster_id # {}
       THEN SelectSeq(typed, LAMBDA r : r.cluster_id \in cluster_id)
       ELSE typed

\* Series.mean() skips NaN; it is NaN when no value is left.
mean_is_nan(vals) == \A i \in 1..Len(vals) : is_nan(vals[i])

column_latitude(df) == [ i \in 1..Len(df) |-> df[i].latitude ]
column_longitude(df) == [ i \in 1..Len(df) |-> df[i].longitude ]

\* folium rejects a location with a NaN coordinate (ValueError).
location_ok(lat_nan, lon_nan) == ~ lat_nan /\ ~ lon_nan

\* Variant: the marker colour is taken one palette entry too far.
RECURSIVE marker_loop_off_by_one(_)
marker_loop_off_by_one(rows) ==
  IF rows = <<>> THEN [ markers |-> <<>>, err |-> NoError ]
  ELSE LET row == Head(rows)
           icon_color == palette_at(row.cluster_rank + 1)
       IN IF icon_color = IndexError
            THEN [ markers |-> <<>>, err |-> IndexError ]
          ELSE IF is_nan(row.latitude) \/ is_nan(row.longitude)
            THEN [ markers |-> <<>>, err |-> ValueError ]
          ELSE LET rest == marker_loop_off_by_one(Tail(rows))
               IN [ markers |-> << [ site |-> row.index,
                                     color |-> icon_color,
                                     cluster_type |-> row.cluster_type,
                                     cluster_id |-> row.cluster_id ] >>
                                \o rest.markers,
                    err |-> rest.err ]

\* The iterrows loop: markers added to the map until a step raises.
RECURSIVE marker_loop(_)
marker_loop(rows) ==
  IF rows = <<>> THEN [ markers |-> <<>>, err |-> NoError ]
  ELSE LET row == Head(rows)
           icon_color == palette_at(row.cluster_rank)
       IN IF icon_color = IndexError
            THEN [ markers |-> <<>>, err |-> IndexError ]
          ELSE IF ~ location_ok(is_nan(row.latitude), is_nan(row.longitude))
            THEN [ markers |-> <<>>, err |-> ValueError ]
          ELSE LET rest == marker_loop(Tail(rows))
               IN [ markers |-> << [ site |-> row.index,
                                     color |-> icon_color,
                                     cluster_type |-> row.cluster_type,
                                     cluster_id |-> row.cluster_id ] >>
                                \o rest.markers,
                    err |-> rest.err ]

display_map(df, cluster_type, cluster_id) ==
  LET frame == map_frame(df, cluster_type, cluster_id)
  IN IF ~ location_ok(mean_is_nan(column_latitude(frame)),
                      mean_is_nan(column_longitude(frame)))
       THEN [ frame |-> frame, markers |-> <<>>, err |-> ValueError ]
       ELSE [ frame |-> frame,
              markers |-> marker_loop(frame).markers,
              err |-> marker_loop(frame).err ]

\* ------------------------------------------------------- other widgets

\* df["cluster_type"].unique(), the options of the selectbox.
cluster_type_options(df) == unique(column_cluster_type(df))

\* display_resumes: img_mapping[cluster_type]
display_resumes(cluster_type) ==
  IF cluster_type \in img_mapping_keys
    THEN [ img |-> img_mapping(cluster_type), err |-> NoError ]
    ELSE [ img |-> "", err |-> KeyError ]

Range(s) == { s[i] : i \in 1..Len(s) }

\* ------------------------------------------------------------------ state

VARIABLES
  disk,      \* the data directory: for every listed file, whether it exists and its rows
  loaded,    \* "no" before load_data ran, then "ok" or "failed"
  data,      \* the table load_data returned
  op,        \* the function called last
  arg_type,  \* its cluster_type argument
  arg_sel,   \* its cluster_id argument (the multiselect's selection)
  ids,       \* the sequence _get_sorted_cluster_ids returned
  legend,    \* the legend entries written to the sidebar
  frame,     \* the frame display_map iterated over
  markers,   \* the markers display_map added to the map
  img,       \* the image display_resumes showed
  err        \* the exception that ended the call, or NoError

vars == << disk, loaded, data, op, arg_type, arg_sel, ids, legend, frame,
           markers, img, err >>

Disks(tables) == [ Files -> [ exists : {TRUE}, rows : tables ]
                            \cup { [ exists |-> FALSE, rows |-> <<>> ] } ]

InitWith(tables) ==
  /\ disk \in Disks(tables)
  /\ loaded = "no"
  /\ data = <<>>
  /\ op = "start"
  /\ arg_type = None
  /\ arg_sel = {}
  /\ ids = <<>>
  /\ legend = <<>>
  /\ frame = <<>>
  /\ markers = <<>>
  /\ img = ""
  /\ err = NoError

Init == InitWith(Tables(SortRows, 0..MaxRows))
InitMap == InitWith(Tables(MapRows, 0..MaxRows))
InitPalette == InitWith(Tables(PaletteRows, {1}))

\* load_data()
LoadData ==
  /\ op = "start"
  /\ LET ld == load_data(disk)
     IN /\ loaded' = (IF ld.err = NoError THEN "ok" ELSE "failed")
        /\ data' = ld.df
        /\ err' = ld.err
  /\ op' = "load_data"
  /\ arg_type' = None /\ arg_sel' = {}
  /\ ids' = <<>> /\ legend' = <<>> /\ frame' = <<>> /\ markers' = <<>> /\ img' = ""
  /\ UNCHANGED disk

\* A function of app.py is called on the table load_data returned.
Callable == loaded = "ok" /\ op = "load_data"

\* _get_sorted_cluster_ids(data, cluster_type)
GetSortedClusterIds(cluster_type) ==
  /\ Callable
  /\ op' = "_get_sorted_cluster_ids"
  /\ arg_type' = cluster_type /\ arg_sel' = {}
  /\ ids' = _get_sorted_cluster_ids(data, cluster_type)
  /\ err' = NoError
  /\ legend' = <<>> /\ frame' = <<>> /\ markers' = <<>> /\ img' = ""
  /\ UNCHANGED << disk, loaded, data >>

\* display_legend(data, cluster_type)
DisplayLegend(cluster_type) ==
  /\ Callable
  /\ op' = "display_legend"
  /\ arg_type' = cluster_type /\ arg_sel' = {}
  /\ LET lg == display_legend(data, cluster_type)
     IN legend' = lg.entries /\ err' = lg.err
  /\ ids' = _get_sorted_cluster_ids(data, cluster_type)
  /\ frame' = <<>> /\ markers' = <<>> /\ img' = ""
  /\ UNCHANGED << disk, loaded, data >>

\* display_cluster_id(data, cluster_type): the multiselect offers the sorted
\* cluster ids and returns the ones the user picks, none by default.
DisplayClusterId(cluster_type, selection) ==
  /\ Callable
  /\ selection \subseteq Range(_get_sorted_cluster_ids(data, cluster_type))
  /\ op' = "display_cluster_id"
  /\ arg_type' = cluster_type /\ arg_sel' = selection
  /\ ids' = _get_sorted_cluster_ids(data, cluster_type)
  /\ err' = NoError
  /\ legend' = <<>> /\ frame' = <<>> /\ markers' = <<>> /\ img' = ""
  /\ UNCHANGED << disk, loaded, data >>

\* display_map(data, cluster_type, cluster_id)
DisplayMap(cluster_type, cluster_id) ==
  /\ Callable
  /\ op' = "display_map"
  /\ arg_type' = cluster_type /\ arg_sel' = cluster_id
  /\ LET mp == display_map(data, cluster_type, cluster_id)
     IN frame' = mp.frame /\ markers' = mp.markers /\ err' = mp.err
  /\ ids' = <<>> /\ legend' = <<>> /\ img' = ""
  /\ UNCHANGED << disk, loaded, data >>

\* main(): one run of the script.  choice is the option the user has picked in
\* the selectbox (None when it has no options), selection the options picked in
\* the multiselect; the run stops at the first exception.
main(choice, selection) ==
  LET ld == load_data(disk)
      options == _get_sorted_cluster_ids(ld.df, choice)
      lg == display_legend(ld.df, choice)
      mp == display_map(ld.df, choice, selection)
      rs == display_resumes(choice)
  IN IF ld.err # NoError
       THEN [ loaded |-> "failed", data |-> <<>>, cluster_type |-> None,
              ids |-> <<>>, legend |-> <<>>, frame |-> <<>>, markers |-> <<>>,
              img |-> "", err |-> ld.err ]
     ELSE IF lg.err # NoError
       THEN [ loaded |-> "ok", data |-> ld.df, cluster_type |-> choice,
              ids |-> options, legend |-> lg.entries, frame |-> <<>>,
              markers |-> <<>>, img |-> "", err |-> lg.err ]
     ELSE IF mp.err # NoError
       THEN [ loaded |-> "ok", data |-> ld.df, cluster_type |-> choice,
              ids |-> options, legend |-> lg.entries, frame |-> mp.frame,
              markers |-> mp.markers, img |-> "", err |-> mp.err ]
     ELSE [ loaded |-> "ok", data |-> ld.df, cluster_type |-> choice,
            ids |-> options, legend |-> lg.entries, frame |-> mp.frame,
            markers |-> mp.markers, img |-> rs.img, err |-> rs.err ]

\* The widgets only return what they offer: a cluster_type of the table and
\* cluster ids of that type.
Main(choice, selection) ==
  /\ op = "start"
  /\ LET df == load_data(disk).df
     IN /\ IF cluster_type_options(df) = <<>>
             THEN choice = None
             ELSE choice \in Range(cluster_type_options(df))
        /\ selection \subseteq Range(_get_sorted_cluster_ids(df, choice))
  /\ op' = "main"
  /\ LET run == main(choice, selection)
     IN /\ loaded' = run.loaded
        /\ data' = run.data
        /\ arg_type' = run.cluster_type
        /\ ids' = run.ids
        /\ legend' = run.legend
        /\ frame' = run.frame
        /\ markers' = run.markers
        /\ img' = run.img
        /\ err' = run.err
  /\ arg_sel' = selection
  /\ UNCHANGED disk

Next ==
  \/ LoadData
  \/ \E cluster_type \in ClusterTypes : GetSortedClusterIds(cluster_type)
  \/ \E cluster_type \in ClusterTypes : DisplayLegend(cluster_type)
  \/ \E cluster_type \in ClusterTypes, selection \in SUBSET ClusterIds :
        DisplayClusterId(cluster_type, selection)
  \/ \E cluster_type \in ClusterTypes, cluster_id \in SUBSET ClusterIds :
        DisplayMap(cluster_type, cluster_id)
  \/ \E choice \in ClusterTypes \cup { None }, selection \in SUBSET ClusterIds :
        Main(choice, selection)

Spec == Init /\ [][Next]_vars
SpecMap == InitMap /\ [][Next]_vars
SpecPalette == InitPalette /\ [][Next]_vars

\* ------------------------------------------------------------- properties

\* Positions of the rows of df with the given cluster_type, and of one cluster.
RowsOfType(df, t) == { i \in 1..Len(df) : df[i].cluster_type = t }
ClusterRows(df, t, c) == { i \in RowsOfType(df, t) : df[i].cluster_id = c }
ClusterRanks(df, t, c) == { df[i].cluster_rank : i \in ClusterRows(df, t, c) }
ClustersOfType(df, t) == { df[i].cluster_id : i \in RowsOfType(df, t) }
Min(S) == CHOOSE x \in S : \A y \in S : x <= y
MinRank(df, t, c) == Min(ClusterRanks(df, t, c))
FirstRow(df, t, c) == Min(ClusterRows(df, t, c))
PositionOf(seq, x) == Min({ i \in 1..Len(seq) : seq[i] = x })
\* Positions of the rows of df that have a longitude.
Geolocated(df) == { i \in 1..Len(df) : df[i].longitude # NaN }
FrameSites(rows) == { rows[i].index + 1 : i \in 1..Len(rows) }
MarkerSites(ms) == { ms[i].site + 1 : i \in 1..Len(ms) }
LegendIds(lg) == { lg[i].cluster_id : i \in 1..Len(lg) }
\* display_map ran in the call the state records.
MapRan == op = "display_map"
            \/ (op = "main" /\ loaded = "ok" /\ Len(legend) = Len(ids))
\* display_legend ran in the call the state records.
LegendRan == op = "display_legend" \/ (op = "main" /\ loaded = "ok")

\* C1: for a cluster_type that occurs in the table, _get_sorted_cluster_ids
\* returns exactly the distinct cluster ids of that type, each once, and a
\* cluster never precedes one of smaller rank (a cluster's rank being the
\* smallest rank among its rows).
C1_SortedClusterIds ==
  (op = "_get_sorted_cluster_ids" /\ RowsOfType(data, arg_type) # {}) =>
    /\ Range(ids) = ClustersOfType(data, arg_type)
    /\ \A i, j \in 1..Len(ids) :
         i < j => /\ ids[i] # ids[j]
                  /\ MinRank(data, arg_type, ids[i]) <= MinRank(data, arg_type, ids[j])

\* The scenario of the specification: ("1", rank 2) then ("2", rank 0) gives
\* ["2", "1"].
C1_Witness ==
  /\ op = "_get_sorted_cluster_ids"
  /\ Len(data) = 2
  /\ RowsOfType(data, arg_type) = { 1, 2 }
  /\ data[1].cluster_id = "1" /\ data[1].cluster_rank = 2
  /\ data[2].cluster_id = "2" /\ data[2].cluster_rank = 0
  /\ ids = << "2", "1" >>

\* The rank of the one row display_map was called on in SpecPalette.
OneRowLookup == op = "display_map" /\ Len(data) = 1 /\ Len(frame) = 1

C3_FilterIsSubset ==
  MapRan =>
    /\ FrameSites(frame) \subseteq FrameSites(display_map(data, arg_type, {}).frame)
    /\ MarkerSites(markers) \subseteq FrameSites(frame)
    /\ \A i \in FrameSites(frame) :
         /\ data[i].cluster_type = arg_type
         /\ arg_sel # {} => data[i].cluster_id \in arg_sel

\* A selection that leaves out a site of the cluster_type and keeps another.
C3_Witness ==
  /\ op = "display_map"
  /\ arg_sel # {}
  /\ markers # <<>>
  /\ FrameSites(frame) # FrameSites(display_map(data, arg_type, {}).frame)

\* No row of the table has the cluster_type of the call, or none that has it
\* has a longitude.
NothingToMap == \A i \in RowsOfType(data, arg_type) : data[i].longitude = NaN

\* C4: a cluster_type that matches no row gives an empty cluster-id sequence
\* and a map with no markers, and neither call ends in an error; so does
\* display_map when every matching row lacks a longitude.
C4_EmptyResultIsNoError ==
  /\ (op = "_get_sorted_cluster_ids" /\ RowsOfType(data, arg_type) = {}) =>
       (ids = <<>> /\ err = NoError)
  /\ (op = "display_map" /\ NothingToMap) =>
       (markers = <<>> /\ err = NoError)

\* C5: load_data returns the rows of the files that exist, in order, and does
\* not raise, whichever files are missing.
C5_LoadSkipsMissing ==
  op = "load_data" =>
    /\ err = NoError
    /\ loaded = "ok"
    /\ LET rows == concat_rows(existing_frames(disk, file_names))
       IN /\ Len(data) = Len(rows)
          /\ \A i \in 1..Len(rows) :
               /\ data[i].cluster_type = rows[i].cluster_type
               /\ data[i].cluster_id = rows[i].cluster_id
               /\ data[i].cluster_rank = rows[i].cluster_rank
               /\ data[i].latitude = rows[i].latitude
               /\ data[i].longitude = rows[i].longitude

\* C6: a row without a longitude is never selected or marked by display_map,
\* and its cluster_id is still returned by _get_sorted_cluster_ids for its
\* cluster_type, offered by the multiselect and listed in the legend.
C6_NoLongitudeStillListed ==
  \A i \in 1..Len(data) :
    (data[i].longitude = NaN) =>
      /\ MapRan => (i \notin FrameSites(frame) /\ i \notin MarkerSites(markers))
      /\ (op \in { "_get_sorted_cluster_ids", "display_cluster_id", "main" }
            /\ loaded = "ok" /\ data[i].cluster_type = arg_type)
           => data[i].cluster_id \in Range(ids)
      /\ (LegendRan /\ data[i].cluster_type = arg_type)
           => data[i].cluster_id \in LegendIds(legend)

\* One run of main on a table where a cluster's only row has no longitude:
\* the cluster is in the options and the legend, the site is not on the map,
\* another site is.
C6_Witness ==
  /\ op = "main" /\ loaded = "ok" /\ arg_sel = {}
  /\ markers # <<>>
  /\ \E i \in 1..Len(data) :
       /\ data[i].longitude = NaN
       /\ data[i].cluster_type = arg_type
       /\ ClusterRows(data, arg_type, data[i].cluster_id) = { i }
       /\ data[i].cluster_id \in Range(ids)
       /\ data[i].cluster_id \in LegendIds(legend)
       /\ i \notin MarkerSites(markers)

\* C7: the legend pairs the sorted cluster ids with the palette by position:
\* entry N (0-based) is cluster ids[N] in colour COLOR_PALETTE[N], whatever the
\* cluster's rank, so n clusters (n within the palette) show the first n
\* palette colours.
C7_LegendByPosition ==
  LegendRan =>
    /\ ids = _get_sorted_cluster_ids(data, arg_type)
    /\ Len(ids) <= Len(COLOR_PALETTE) => Len(legend) = Len(ids)
    /\ \A N \in 1..Len(legend) :
         /\ legend[N].cluster_id = ids[N]
         /\ legend[N].color = COLOR_PALETTE[N]

\* Two clusters of ranks 1 and 2: the second legend entry is the rank-2 cluster
\* in the second palette colour.
C7_Witness ==
  /\ op = "display_legend"
  /\ Len(legend) = 2
  /\ ClusterRanks(data, arg_type, legend[1].cluster_id) = { 1 }
  /\ ClusterRanks(data, arg_type, legend[2].cluster_id) = { 2 }
  /\ legend[1].color = "black" /\ legend[2].color = "red"

\* The clusters of the requested type whose rows all carry one rank.
SingleRank(df, t) == { c \in ClustersOfType(df, t) :
                        Cardinality(ClusterRanks(df, t, c)) = 1 }

\* C8: two distinct clusters of the requested type that have the same rank
\* come out in the order in which the table first mentions them.
C8_StableOnTies ==
  op = "_get_sorted_cluster_ids" =>
    \A a, b \in SingleRank(data, arg_type) :
      (a # b /\ ClusterRanks(data, arg_type, a) = ClusterRanks(data, arg_type, b)
         /\ FirstRow(data, arg_type, a) < FirstRow(data, arg_type, b))
        => (a \in Range(ids) /\ b \in Range(ids)
             /\ PositionOf(ids, a) < PositionOf(ids, b))

\* Cluster "2" is met before cluster "1", both of the same rank.
C8_Witness ==
  /\ op = "_get_sorted_cluster_ids"
  /\ Len(data) = 2
  /\ RowsOfType(data, arg_type) = { 1, 2 }
  /\ data[1].cluster_id = "2" /\ data[2].cluster_id = "1"
  /\ data[1].cluster_rank = data[2].cluster_rank
  /\ ids = << "2", "1" >>

\* The clusters of the type have one rank each, no two the same, all of them
\* palette indexes.
DistinctRanks(df, t) ==
  /\ SingleRank(df, t) = ClustersOfType(df, t)
  /\ \A a, b \in ClustersOfType(df, t) :
       a # b => ClusterRanks(df, t, a) # ClusterRanks(df, t, b)
  /\ \A c \in ClustersOfType(df, t) :
       ClusterRanks(df, t, c) \subseteq 0..(Len(COLOR_PALETTE) - 1)

AllRanks(df, t) == { df[i].cluster_rank : i \in RowsOfType(df, t) }

\* C9: with pairwise distinct ranks inside the palette, every marker has the
\* palette colour of its rank, and the legend colour of every cluster is the
\* marker colour of that cluster exactly when the ranks are 0..n-1.
C9_LegendVsMarkers ==
  (op = "main" /\ loaded = "ok" /\ DistinctRanks(data, arg_type)) =>
    /\ \A k \in 1..Len(markers) :
         markers[k].color = COLOR_PALETTE[data[markers[k].site + 1].cluster_rank + 1]
    /\ (\A N \in 1..Len(legend) :
          legend[N].color =
            COLOR_PALETTE[MinRank(data, arg_type, legend[N].cluster_id) + 1])
        <=> (AllRanks(data, arg_type) = 0..(Len(ids) - 1))

\* Ranks {0, 2}: the legend shows palette entries 0 and 1, the markers show
\* entries 0 and 2.
C9_Witness ==
  /\ op = "main" /\ loaded = "ok"
  /\ DistinctRanks(data, arg_type)
  /\ AllRanks(data, arg_type) = { 0, 2 }
  /\ Len(legend) = 2 /\ legend[1].color = "black" /\ legend[2].color = "red"
  /\ Len(markers) = 2
  /\ { markers[1].color, markers[2].color } = { "black", "blue" }

\* C10: with an empty selection display_map selects every site of the
\* cluster_type that has a longitude; with a non-empty selection, those of
\* them whose cluster_id is selected; when it ends without an error, it has
\* put a marker on each of them.
C10_EmptySelectionIsNoFilter ==
  MapRan =>
    /\ arg_sel = {} =>
         FrameSites(frame) = RowsOfType(data, arg_type) \cap Geolocated(data)
    /\ arg_sel # {} =>
         FrameSites(frame) = { i \in RowsOfType(data, arg_type) \cap Geolocated(data) :
                                 data[i].cluster_id \in arg_sel }
    /\ err \in { NoError, KeyError } => MarkerSites(markers) = FrameSites(frame)

\* main with nothing selected in the multiselect marks both sites of the type.
C10_Witness ==
  /\ op = "main" /\ loaded = "ok"
  /\ arg_sel = {}
  /\ Len(data) = 2
  /\ data[1].cluster_id # data[2].cluster_id
  /\ MarkerSites(markers) = { 1, 2 }

====
